---- MODULE Spec2Model ----
(***************************************************************************)
(* News portal summary backend: link classification, bounded concurrent    *)
(* candidate fetch, payload assembly and the Redis cache wrapper.          *)
(*                                                                         *)
(* Python strings are modelled as sequences of one-character strings, so   *)
(* that startswith / endswith / `in` / urlparse are computed on the text.  *)
(* An Optional value is a sequence of length 0 (None) or 1.                *)
(***************************************************************************)
EXTENDS Integers, Sequences, FiniteSets, TLC

VARIABLES
    \* --- link classifier called as a function
    clLinks, clHost, clLimit, clSelected, clCandidates, clPc,
    \* --- one pipeline invocation (scrape_to_payload / scrape_and_save)
    impl, url, limit, same_domain_only, concurrency,
    pc, links, task, results, sem, payload, raised, completion,
    \* --- cache wrapper (reference.py)
    redis_client, cache, now, call,
    \* --- testscrapingFile.main
    tsPc, article_links, tsIdx, tsArticles, tsOutput,
    \* --- normalize_url called as a function, once and on its own result
    nzUrl, nzOut, nzAgain, nzPc,
    \* --- the metadata extractors called as functions
    exHtml, exUrl, exArticle, exPc

clVars == <<clLinks, clHost, clLimit, clSelected, clCandidates, clPc>>
plVars == <<impl, url, limit, same_domain_only, concurrency,
            pc, links, task, results, sem, payload, raised, completion>>
rcVars == <<redis_client, cache, now, call>>
tsVars == <<tsPc, article_links, tsIdx, tsArticles, tsOutput>>
nzVars == <<nzUrl, nzOut, nzAgain, nzPc>>
exVars == <<exHtml, exUrl, exArticle, exPc>>
fnVars == <<nzVars, exVars>>
vars == <<clVars, plVars, rcVars, tsVars, fnVars>>

-----------------------------------------------------------------------------
(* Bounds of the model *)

\* most link records (internal and external together) in one link collection
MaxLinks == 3
\* most external link records in a link collection handed to a classifier
MaxExternal == 1
\* largest `limit` argument
MaxLimit == 3
\* largest `concurrency` argument
MaxConcurrency == 2
\* how many times the clock of the cache store advances
MaxTicks == 2

-----------------------------------------------------------------------------
(* Python str operations on character sequences *)

None == <<>>
Some(x) == <<x>>

\* F applied to the value of e, with e evaluated once (a local variable assignment)
Let(e, F(_)) == CHOOSE y \in {F(x) : x \in {e}} : TRUE

Min(a, b) == IF a < b THEN a ELSE b
Max(a, b) == IF a > b THEN a ELSE b

\* s[:n] for any integer n (a negative n counts from the end)
SliceTo(s, n) ==
    IF n >= 0 THEN SubSeq(s, 1, Min(n, Len(s)))
    ELSE SubSeq(s, 1, Max(Len(s) + n, 0))

\* s[i:] with i a 0-based offset >= 0
SliceFrom(s, i) == SubSeq(s, i + 1, Len(s))

\* s.startswith(p)
StartsWith(s, p) == Len(p) <= Len(s) /\ SubSeq(s, 1, Len(p)) = p

\* s.endswith(p)
EndsWith(s, p) == Len(p) <= Len(s) /\ SubSeq(s, Len(s) - Len(p) + 1, Len(s)) = p

\* p in s  (substring test)
Contains(s, p) ==
    \E i \in 0..(Len(s) - Len(p)) : SubSeq(s, i + 1, i + Len(p)) = p

\* s.find(c, start): 0-based index of the first c at or after `start`, -1 if none
Find(s, c, start) ==
    LET hits == {i \in start..(Len(s) - 1) : s[i + 1] = c}
    IN  IF hits = {} THEN -1 ELSE CHOOSE i \in hits : \A j \in hits : i <= j

\* s.rfind(c)
RFind(s, c) ==
    LET hits == {i \in 0..(Len(s) - 1) : s[i + 1] = c}
    IN  IF hits = {} THEN -1 ELSE CHOOSE i \in hits : \A j \in hits : i >= j

UpperToLower ==
    [c \in {"A","B","C","D","E","F","G","H","I","J","K","L","M",
            "N","O","P","Q","R","S","T","U","V","W","X","Y","Z"} |->
        CASE c = "A" -> "a" [] c = "B" -> "b" [] c = "C" -> "c" [] c = "D" -> "d"
          [] c = "E" -> "e" [] c = "F" -> "f" [] c = "G" -> "g" [] c = "H" -> "h"
          [] c = "I" -> "i" [] c = "J" -> "j" [] c = "K" -> "k" [] c = "L" -> "l"
          [] c = "M" -> "m" [] c = "N" -> "n" [] c = "O" -> "o" [] c = "P" -> "p"
          [] c = "Q" -> "q" [] c = "R" -> "r" [] c = "S" -> "s" [] c = "T" -> "t"
          [] c = "U" -> "u" [] c = "V" -> "v" [] c = "W" -> "w" [] c = "X" -> "x"
          [] c = "Y" -> "y" [] c = "Z" -> "z"]

\* s.lower()
Lower(s) ==
    [i \in 1..Len(s) |-> IF s[i] \in DOMAIN UpperToLower THEN UpperToLower[s[i]] ELSE s[i]]

Letters ==
    {"a","b","c","d","e","f","g","h","i","j","k","l","m",
     "n","o","p","q","r","s","t","u","v","w","x","y","z"} \cup DOMAIN UpperToLower

Digits == {"0","1","2","3","4","5","6","7","8","9"}

\* urllib.parse.scheme_chars
scheme_chars == Letters \cup Digits \cup {"+", "-", "."}

\* urllib.parse.uses_params, as far as the model's schemes go
uses_params == {<<>>, <<"h","t","t","p">>, <<"h","t","t","p","s">>, <<"f","t","p">>}

\* urllib.parse._splitparams
splitparams(u) ==
    LET slash == RFind(u, "/")
        i == IF slash >= 0 THEN Find(u, ";", slash) ELSE Find(u, ";", 0)
    IN  IF i < 0 THEN [path |-> u, params |-> <<>>]
        ELSE [path |-> SliceTo(u, i), params |-> SliceFrom(u, i + 1)]

\* urlsplit, step 1: the scheme, if the text before the first ":" is one
split_scheme(u) ==
    LET i == Find(u, ":", 0)
    IN  IF i > 0 /\ u[1] \in Letters /\ \A k \in 1..i : u[k] \in scheme_chars
        THEN [scheme |-> Lower(SliceTo(u, i)), rest |-> SliceFrom(u, i + 1)]
        ELSE [scheme |-> <<>>, rest |-> u]

\* urlsplit, step 2 (_splitnetloc): after "//", the netloc runs to the first of / ? #
split_netloc(r) ==
    LET ends == {k \in 2..(Len(r) - 1) : r[k + 1] \in {"/", "?", "#"}}
        delim == IF ends = {} THEN Len(r)
                 ELSE CHOOSE k \in ends : \A j \in ends : k <= j
    IN  IF StartsWith(r, <<"/","/">>)
        THEN [netloc |-> SubSeq(r, 3, delim), rest |-> SliceFrom(r, delim)]
        ELSE [netloc |-> <<>>, rest |-> r]

\* s.split(c, 1) when c is in s: the text before and after the first c
split_once(r, c) ==
    LET h == Find(r, c, 0)
    IN  IF h >= 0 THEN [head |-> SliceTo(r, h), tail |-> SliceFrom(r, h + 1)]
        ELSE [head |-> r, tail |-> <<>>]

\* urllib.parse.urlparse: scheme, netloc, path, params, query, fragment
urlparse(u) ==
    Let(split_scheme(u), LAMBDA a :
    Let(split_netloc(a.rest), LAMBDA b :
    Let(split_once(b.rest, "#"), LAMBDA c :
    Let(split_once(c.head, "?"), LAMBDA d :
    Let(IF a.scheme \in uses_params /\ Contains(d.head, <<";">>)
        THEN splitparams(d.head) ELSE [path |-> d.head, params |-> <<>>], LAMBDA sp :
        [scheme |-> a.scheme, netloc |-> b.netloc, path |-> sp.path,
         params |-> sp.params, query |-> d.tail, fragment |-> c.tail])))))

-----------------------------------------------------------------------------
(* Text used by the model *)

HTTP == <<"h","t","t","p">>
ColonSlashes == <<":","/","/">>
HostA == <<"a",".","i","o">>
HostB == <<"b",".","i","o">>
HostXA == <<"x","a",".","i","o">>

SegNews == <<"/","n","e","w","s","/">>
SegArticles == <<"/","a","r","t","i","c","l","e","s","/">>
SegSport == <<"/","s","p","o","r","t","/">>
SegBusiness == <<"/","b","u","s","i","n","e","s","s","/">>
SegWorld == <<"/","w","o","r","l","d","/">>
SegCulture == <<"/","c","u","l","t","u","r","e","/">>

\* the extension list of select_article_links, in list order
AssetExtensions ==
    << <<".","j","p","g">>, <<".","j","p","e","g">>, <<".","p","n","g">>,
       <<".","w","e","b","p">>, <<".","g","i","f">>, <<".","m","p","4">>,
       <<".","m","3","u","8">>, <<".","p","d","f">>, <<".","c","s","s">>,
       <<".","j","s">> >>

\* the exclusion list of collect_candidate_links.accept
ExcludedFragments ==
    << <<"/","a","u","d","i","o","/","p","l","a","y","/">>,
       <<"/","r","e","e","l","/","v","i","d","e","o","/">>,
       <<"/","v","i","d","e","o">>, <<"/","l","i","v","e","/">>,
       <<"p","l","a","y","l","i","s","t">>, <<"/","s","o","u","n","d","s","/">> >>
    \o AssetExtensions

\* the path segments of select_article_links
SelectSegments == <<SegNews, SegArticles, SegSport, SegBusiness, SegWorld, SegCulture>>

\* the path segments of collect_candidate_links.accept
AcceptSegments == <<SegNews, SegArticles, SegSport, SegBusiness, SegWorld>>

Href(host, path) == HTTP \o ColonSlashes \o host \o path

HrefNewsA == Href(HostA, SegNews \o <<"a">>)
HrefSportB == Href(HostA, SegSport \o <<"b">>)
HrefImage == Href(HostA, <<"/","i","m","a","g","e",".","j","p","g">>)
HrefNewsOtherHost == Href(HostB, SegNews \o <<"c">>)
HrefNewsSuperHost == Href(HostXA, SegNews \o <<"d">>)
HrefCulture == Href(HostA, SegCulture \o <<"f">>)
HrefRelative == SegNews \o <<"e">>
HrefMissing == <<>>

\* hrefs a crawl may report
Hrefs == {HrefNewsA, HrefSportB, HrefImage, HrefNewsOtherHost, HrefNewsSuperHost,
          HrefCulture, HrefRelative, HrefMissing}

SeqsUpTo(S, n) == UNION {[1..k -> S] : k \in 0..n}

InSeq(x, s) == \E i \in 1..Len(s) : s[i] = x

-----------------------------------------------------------------------------
(* Link classifier, src/scrape_and_save_json.py *)

RECURSIVE add_from(_, _, _, _)
\* add_from(items) with `selected` threaded through; base_host = <<>> is None or ""
add_from(items, selected, base_host, lim) ==
    IF items = <<>> THEN selected
    ELSE
      LET href == Head(items)
          rest == Tail(items)
      IN  IF href = <<>> \/ ~StartsWith(href, HTTP)
            THEN add_from(rest, selected, base_host, lim)
          ELSE IF base_host # <<>> /\ urlparse(href).netloc # base_host
            THEN add_from(rest, selected, base_host, lim)
          ELSE IF /\ \E k \in 1..Len(SelectSegments) : Contains(href, SelectSegments[k])
                  /\ ~\E k \in 1..Len(AssetExtensions) :
                          EndsWith(Lower(href), AssetExtensions[k])
                  /\ ~InSeq(href, selected)
            THEN LET sel2 == Append(selected, href)
                 IN  IF Len(sel2) >= lim THEN sel2
                     ELSE add_from(rest, sel2, base_host, lim)
          ELSE add_from(rest, selected, base_host, lim)

\* a selection that reads the external entries before the internal ones
select_article_links_external_first(lnk, base_host, lim) ==
    Let(add_from(lnk.external, <<>>, base_host, lim), LAMBDA s1 :
    Let(IF Len(s1) < lim THEN add_from(lnk.internal, s1, base_host, lim) ELSE s1,
        LAMBDA s2 : SliceTo(s2, lim)))

select_article_links(lnk, base_host, lim) ==
    Let(add_from(lnk.internal, <<>>, base_host, lim), LAMBDA s1 :
    Let(IF Len(s1) < lim THEN add_from(lnk.external, s1, base_host, lim) ELSE s1,
        LAMBDA s2 : SliceTo(s2, lim)))

-----------------------------------------------------------------------------
(* Link classifier, src/scrape_to_json.py *)

accept(u) ==
    IF u = <<>> \/ ~StartsWith(u, HTTP) THEN FALSE
    ELSE IF \E k \in 1..Len(ExcludedFragments) : Contains(u, ExcludedFragments[k])
      THEN FALSE
    ELSE \E k \in 1..Len(AcceptSegments) : Contains(u, AcceptSegments[k])

RECURSIVE add_urls(_, _, _)
add_urls(items, cands, base_domain) ==
    IF items = <<>> THEN cands
    ELSE
      LET href == Head(items)
          rest == Tail(items)
      IN  IF href = <<>>
            THEN add_urls(rest, cands, base_domain)
          ELSE IF /\ base_domain # <<>>
                  /\ Let(urlparse(href).netloc,
                         LAMBDA netloc : netloc # <<>> /\ ~Contains(netloc, base_domain))
            THEN add_urls(rest, cands, base_domain)
          ELSE IF accept(href) /\ ~InSeq(href, cands)
            THEN add_urls(rest, Append(cands, href), base_domain)
          ELSE add_urls(rest, cands, base_domain)

\* the candidates without the final cut
collect_candidate_links_uncapped(links_obj, base_domain, lim) ==
    Let(add_urls(links_obj.internal, <<>>, base_domain), LAMBDA c1 :
        IF base_domain = <<>> THEN add_urls(links_obj.external, c1, base_domain) ELSE c1)

\* lim is Optional[int]: None or Some(n)
collect_candidate_links(links_obj, base_domain, lim) ==
    Let(add_urls(links_obj.internal, <<>>, base_domain), LAMBDA c1 :
    Let(IF base_domain = <<>> THEN add_urls(links_obj.external, c1, base_domain) ELSE c1,
        LAMBDA c2 : IF lim # None THEN SliceTo(c2, lim[1]) ELSE c2))

-----------------------------------------------------------------------------
(* Fetched pages and the metadata extractors *)

Whitespace == {" ", "\n", "\t"}

RECURSIVE LStrip(_)
LStrip(s) == IF s # <<>> /\ Head(s) \in Whitespace THEN LStrip(Tail(s)) ELSE s

RECURSIVE RStrip(_)
RStrip(s) ==
    IF s # <<>> /\ s[Len(s)] \in Whitespace THEN RStrip(SubSeq(s, 1, Len(s) - 1)) ELSE s

\* s.strip()
Strip(s) == RStrip(LStrip(s))

\* truthiness of an Optional[str]: neither None nor ""
Truthy(o) == o # None /\ o[1] # <<>>

\* a or b, on Optional[str]
Or(a, b) == Let(a, LAMBDA x : IF Truthy(x) THEN x ELSE b)

\* the character budget of the paragraph fallback
SUMMARY_CHARS == 400

\* A parsed page: `empty` says the response text is "", metas are the <meta> tags in
\* document order (an attribute that is not set is <<>>), title is soup.title.string,
\* paragraphs are the texts of the <p> elements in document order.
Meta(name, property, content) == [name |-> name, property |-> property, content |-> content]

PageEmpty == [empty |-> TRUE, metas |-> <<>>, title |-> None, paragraphs |-> <<>>]

PageMeta ==
    [empty |-> FALSE,
     metas |-> << Meta(None, Some("og:title"), Some(<<" ","T","1"," ">>)),
                  Meta(Some("description"), None, Some(<<"D","1">>)) >>,
     title |-> Some(<<"t","1">>),
     paragraphs |-> << <<"p","1">> >>]

PagePlain ==
    [empty |-> FALSE, metas |-> <<>>, title |-> None,
     paragraphs |-> << <<" ">>, <<"H","i",".">>, <<"Y","o",".">> >>]

\* the inner function meta(name=None, prop=None) of both extractors
meta(soup, name, prop) ==
    LET byName == {i \in 1..Len(soup.metas) : soup.metas[i].name = name}
        byProp == {i \in 1..Len(soup.metas) : soup.metas[i].property = prop}
        first(S) == CHOOSE i \in S : \A j \in S : i <= j
        tag == IF name # None /\ byName # {} THEN Some(soup.metas[first(byName)])
               ELSE IF prop # None /\ byProp # {} THEN Some(soup.metas[first(byProp)])
               ELSE None
    IN  Let(tag, LAMBDA t :
            IF t # None /\ Truthy(t[1].content)
            THEN Some(Strip(t[1].content[1]))
            ELSE None)

\* a title chain that keeps the <title> text as it stands
page_title_unstripped(soup) ==
    Let(Or(meta(soup, Some("og:title"), None),
           Or(meta(soup, None, Some("og:title")),
              meta(soup, Some("twitter:title"), None))),
        LAMBDA t :
            IF ~Truthy(t) /\ Truthy(soup.title) THEN soup.title ELSE t)

\* the title chain shared by parse_article_meta and extract_article_fields
page_title(soup) ==
    Let(Or(meta(soup, Some("og:title"), None),
           Or(meta(soup, None, Some("og:title")),
              meta(soup, Some("twitter:title"), None))),
        LAMBDA t :
            IF ~Truthy(t) /\ Truthy(soup.title) THEN Some(Strip(soup.title[1])) ELSE t)

page_desc(soup) ==
    Or(meta(soup, Some("description"), None),
       Or(meta(soup, None, Some("og:description")),
          meta(soup, Some("twitter:description"), None)))

\* src/scrape_to_json.py
parse_article_meta(html, u) ==
    LET title == page_title(html)
        desc == Let(page_desc(html), LAMBDA d0 :
                    IF ~Truthy(d0) /\ html.paragraphs # <<>>
                    THEN Some(SliceTo(Strip(html.paragraphs[1]), SUMMARY_CHARS))
                    ELSE d0)
    IN  [title |-> Or(title, Some(u))[1],
         summary |-> Or(desc, Some(<<>>))[1],
         readMore |-> u]

RECURSIVE JoinSpace(_)
\* " ".join(parts)
JoinSpace(parts) ==
    IF parts = <<>> THEN <<>>
    ELSE IF Len(parts) = 1 THEN parts[1]
    ELSE parts[1] \o <<" ">> \o JoinSpace(Tail(parts))

\* src/scrape_and_save_json.py
extract_article_fields(html, u) ==
    LET title == page_title(html)
        stripped == [i \in 1..Len(html.paragraphs) |-> Strip(html.paragraphs[i])]
        desc == Let(page_desc(html), LAMBDA d0 :
                    IF ~Truthy(d0)
                    THEN Let(SelectSeq(stripped, LAMBDA t : t # <<>>), LAMBDA paragraphs :
                             IF paragraphs # <<>>
                             THEN Some(SliceTo(JoinSpace(SliceTo(paragraphs, 2)),
                                               SUMMARY_CHARS))
                             ELSE Some(<<>>))
                    ELSE d0)
    IN  [title |-> Or(title, Some(u))[1],
         summary |-> Or(desc, Some(<<>>))[1],
         readMore |-> u]

-----------------------------------------------------------------------------
(* Bounded fetch, both pipelines *)

\* a status check that lets client errors through
raise_for_status_5xx_only(status) == status >= 500

\* ClientResponse.raise_for_status(): raises for a status of 400 or above
raise_for_status(status) == status >= 400

\* What the network does with one request.  kind "timeout" / "conn_error": session.get
\* raises; kind "transport_error": the body cannot be read after a good status line;
\* kind "response": a final response with `status` and `body`.
FetchOutcomes ==
    { [kind |-> "timeout", status |-> 0, body |-> PageEmpty],
      [kind |-> "conn_error", status |-> 0, body |-> PageEmpty],
      [kind |-> "transport_error", status |-> 200, body |-> PageEmpty],
      [kind |-> "response", status |-> 200, body |-> PageMeta],
      [kind |-> "response", status |-> 200, body |-> PageEmpty],
      [kind |-> "response", status |-> 300, body |-> PagePlain],
      [kind |-> "response", status |-> 404, body |-> PagePlain] }

\* fetch_html(session, url): (url, text) or, on any Exception, (url, None)
fetch_html(u, o) ==
    IF o.kind \in {"timeout", "conn_error"} THEN <<u, None>>
    ELSE IF raise_for_status(o.status) THEN <<u, None>>
    ELSE IF o.kind = "transport_error" THEN <<u, None>>
    ELSE <<u, Some(o.body)>>

\* a gate that never makes a task wait
sem_free_ungated(value) == TRUE

\* `async with sem` enters without waiting only while the semaphore's value is positive
sem_free(value) == value > 0

\* results handed back in the order the tasks finished
gather_as_completed(tasks, order) == [i \in 1..Len(tasks) |-> tasks[order[i]].result[1]]

\* asyncio.gather: the results of the awaitables, in the order of the awaitables
\* (`order`, the order in which the tasks finished, plays no part)
gather(tasks, order) == [i \in 1..Len(tasks) |-> tasks[i].result[1]]

\* a test that skips only None
html_missing_none_only(html) == html = None

\* `if not html: continue`
html_missing(html) == html = None \/ html[1].empty

extract(which, html, u) ==
    IF which = "scrape_to_payload" THEN parse_article_meta(html, u)
    ELSE extract_article_fields(html, u)

RECURSIVE collect_articles(_, _, _)
\* the loop `for u, html in results` of both pipelines
collect_articles(which, res, acc) ==
    Let(<<res, acc>>, LAMBDA st :
        IF st[1] = <<>> THEN st[2]
        ELSE Let(Head(st[1]), LAMBDA pair :
                 IF html_missing(pair[2]) THEN collect_articles(which, Tail(st[1]), st[2])
                 ELSE Let(extract(which, pair[2][1], pair[1]), LAMBDA art :
                          collect_articles(which, Tail(st[1]),
                             [articles |-> Append(st[2].articles, art),
                              referral_urls |-> Append(st[2].referral_urls,
                                                       art.readMore)]))))

\* the payload dict; generatedAt (the wall clock) is left out
build_payload(which, source, res) ==
    Let(collect_articles(which, res, [articles |-> <<>>, referral_urls |-> <<>>]),
        LAMBDA acc :
            [source |-> source,
             articles |-> acc.articles,
             referralURLs |-> acc.referral_urls,
             count |-> Len(acc.articles)])

-----------------------------------------------------------------------------
(* Variable groups a specification does not use stay at these values *)

ClIdle ==
    /\ clLinks = [internal |-> <<>>, external |-> <<>>]
    /\ clHost = <<>>
    /\ clLimit = 0
    /\ clSelected = <<>>
    /\ clCandidates = [limit |-> None, out |-> <<>>]
    /\ clPc = "idle"

PlIdle ==
    /\ impl = "none"
    /\ url = <<>>
    /\ limit = 0
    /\ same_domain_only = TRUE
    /\ concurrency = 0
    /\ pc = "idle"
    /\ links = <<>>
    /\ task = <<>>
    /\ results = <<>>
    /\ sem = 0
    /\ payload = None
    /\ raised = None
    /\ completion = <<>>

RcIdle ==
    /\ redis_client = FALSE
    /\ cache = <<>>
    /\ now = 0
    /\ call = <<>>

TsIdle ==
    /\ tsPc = "idle"
    /\ article_links = <<>>
    /\ tsIdx = 0
    /\ tsArticles = <<>>
    /\ tsOutput = None

FnIdle ==
    /\ nzUrl = <<>> /\ nzOut = None /\ nzAgain = None /\ nzPc = "idle"
    /\ exHtml = PageEmpty /\ exUrl = <<>> /\ exArticle = None /\ exPc = "idle"

-----------------------------------------------------------------------------
(* One invocation of scrape_to_payload / scrape_and_save *)

SeedA == Href(HostA, <<"/">>)

\* what crawler.arun(url) may raise on the seed
SeedErrors == {"OSError", "RuntimeError"}

\* crawl.links of a successful seed crawl
CrawlLinks ==
    { [internal |-> <<HrefNewsA, HrefSportB, HrefCulture>>, external |-> <<HrefNewsSuperHost>>],
      [internal |-> <<HrefNewsA, HrefNewsA, HrefImage>>, external |-> <<HrefSportB>>],
      [internal |-> <<>>, external |-> <<>>] }

Impls == {"scrape_to_payload", "scrape_and_save"}

\* the candidate list of either pipeline
classify(which, seed, lnk, lim, sameDomain) ==
    IF which = "scrape_to_payload"
    THEN collect_candidate_links(lnk,
            IF sameDomain THEN urlparse(seed).netloc ELSE None, Some(lim))
    ELSE select_article_links(lnk, urlparse(seed).netloc, lim)

PipelineInit ==
    /\ impl \in Impls
    /\ url = SeedA
    /\ limit \in 0..MaxLimit
    /\ same_domain_only \in (IF impl = "scrape_to_payload" THEN BOOLEAN ELSE {TRUE})
    /\ concurrency \in 0..MaxConcurrency
    /\ pc = "crawl"
    /\ links = <<>>
    /\ task = <<>>
    /\ results = <<>>
    /\ sem = 0
    /\ payload = None
    /\ raised = None
    /\ completion = <<>>
    /\ ClIdle /\ RcIdle /\ TsIdle /\ FnIdle

plFrame == <<impl, url, limit, same_domain_only, concurrency>>

\* crawler.arun(url) raises: the exception leaves the pipeline
SeedCrawlFails ==
    /\ pc = "crawl"
    /\ \E e \in SeedErrors : raised' = Some(e)
    /\ pc' = "raised"
    /\ UNCHANGED <<plFrame, links, task, results, sem, payload, completion,
                   clVars, rcVars, tsVars, fnVars>>

\* crawler.arun(url) returns; the links are classified, the semaphore is created and
\* gather starts one `bounded` task per candidate
SeedCrawl ==
    /\ pc = "crawl"
    /\ \E lnk \in CrawlLinks :
          LET cands == classify(impl, url, lnk, limit, same_domain_only)
          IN  /\ links' = cands
              /\ task' = [i \in 1..Len(cands) |->
                            [state |-> "waiting", outcome |-> None, result |-> None]]
    /\ sem' = concurrency
    /\ pc' = "gather"
    /\ UNCHANGED <<plFrame, results, payload, raised, completion, clVars, rcVars, tsVars, fnVars>>

\* bounded(u) passes `async with sem` and enters fetch_html
Acquire(i) ==
    /\ pc = "gather"
    /\ task[i].state = "waiting"
    /\ sem_free(sem)
    /\ sem' = sem - 1
    /\ task' = [task EXCEPT ![i].state = "inflight"]
    /\ UNCHANGED <<plFrame, pc, links, results, payload, raised, completion,
                   clVars, rcVars, tsVars, fnVars>>

\* a fetch that ends without giving its permit back
FetchDone_keeps_permit(i) ==
    /\ pc = "gather"
    /\ task[i].state = "inflight"
    /\ \E o \in FetchOutcomes :
          task' = [task EXCEPT ![i] = [state |-> "done", outcome |-> Some(o),
                                       result |-> Some(fetch_html(links[i], o))]]
    /\ completion' = Append(completion, i)
    /\ UNCHANGED <<plFrame, pc, links, results, payload, raised, sem,
                   clVars, rcVars, tsVars, fnVars>>

\* a fetch that gives its permit back only when it got a response
FetchDone_release_on_response(i) ==
    /\ pc = "gather"
    /\ task[i].state = "inflight"
    /\ \E o \in FetchOutcomes :
          /\ task' = [task EXCEPT ![i] = [state |-> "done", outcome |-> Some(o),
                                          result |-> Some(fetch_html(links[i], o))]]
          /\ sem' = IF o.kind = "response" THEN sem + 1 ELSE sem
    /\ completion' = Append(completion, i)
    /\ UNCHANGED <<plFrame, pc, links, results, payload, raised, clVars, rcVars, tsVars, fnVars>>

\* fetch_html returns for task i; leaving `async with sem` releases the permit
FetchDone(i) ==
    /\ pc = "gather"
    /\ task[i].state = "inflight"
    /\ \E o \in FetchOutcomes :
          task' = [task EXCEPT ![i] = [state |-> "done", outcome |-> Some(o),
                                       result |-> Some(fetch_html(links[i], o))]]
    /\ sem' = sem + 1
    /\ completion' = Append(completion, i)
    /\ UNCHANGED <<plFrame, pc, links, results, payload, raised, clVars, rcVars, tsVars, fnVars>>

\* every task is done: gather returns and the payload is assembled
Assemble ==
    /\ pc = "gather"
    /\ \A i \in 1..Len(task) : task[i].state = "done"
    /\ results' = gather(task, completion)
    /\ payload' = Some(build_payload(impl, url, results'))
    /\ pc' = "done"
    /\ UNCHANGED <<plFrame, links, task, sem, raised, completion, clVars, rcVars, tsVars, fnVars>>

Next ==
    \/ SeedCrawlFails
    \/ SeedCrawl
    \/ \E i \in 1..Len(task) : Acquire(i)
    \/ \E i \in 1..Len(task) : FetchDone(i)
    \/ Assemble

Init == PipelineInit

Spec == Init /\ [][Next]_vars

\* The event loop keeps running a task that is ready, and every awaited operation
\* ends: the seed crawl returns or raises, every fetch gives a response, an error or
\* its own timeout.  As long as some step can be taken, one is taken.
SpecLive == Init /\ [][Next]_vars /\ WF_vars(Next)

InFlight == {i \in 1..Len(task) : task[i].state = "inflight"}

\* C1: the fetches inside fetch_html never outnumber `concurrency`
C1_InFlightBounded == Cardinality(InFlight) <= concurrency

\* every permit is taken while another candidate still waits for one
C1_Witness ==
    /\ pc = "gather"
    /\ concurrency >= 1
    /\ Cardinality(InFlight) = concurrency
    /\ \E i \in 1..Len(task) : task[i].state = "waiting"

\* C2: the batch gather returns has one result per candidate, and result i is the
\* pair that the fetch of candidate i produced
C2_ResultsPositional ==
    pc = "done" =>
        /\ Len(results) = Len(links)
        /\ \A i \in 1..Len(links) :
              results[i][1] = links[i] /\ Some(results[i]) = task[i].result

\* a batch of three whose last candidate finished first
C2_Witness ==
    /\ pc = "done"
    /\ Len(links) = 3
    /\ completion[1] = 3

FetchRaises(o) == o.kind \in {"timeout", "conn_error", "transport_error"}

\* timeout, connection error, transport error, or a status outside 200..299
FailedNon2xx(o) == FetchRaises(o) \/ (o.kind = "response" /\ ~(o.status \in 200..299))

\* timeout, connection error, transport error, or a status of 400 or above
FailedStatus400(o) == FetchRaises(o) \/ (o.kind = "response" /\ o.status >= 400)

\* a failed fetch yields (url, None), every other fetch yields its own body, no
\* exception leaves the batch, and the batch ends only with a result for every URL
FailureIsolated(Failed(_)) ==
    /\ pc \in {"gather", "done"} => raised = None
    /\ \A i \in 1..Len(task) :
          task[i].state = "done" =>
              LET o == task[i].outcome[1]
              IN  task[i].result =
                     Some(<<links[i], IF Failed(o) THEN None ELSE Some(o.body)>>)
    /\ pc = "done" =>
          /\ \A i \in 1..Len(task) : task[i].state = "done"
          /\ Len(results) = Len(links)

KeptCandidates(Kept(_)) ==
    LET idx == SelectSeq([i \in 1..Len(links) |-> i],
                         LAMBDA i : Kept(task[i].result[1][2]))
    IN  [k \in 1..Len(idx) |-> links[idx[k]]]

PayloadLists(Kept(_)) ==
    pc = "done" =>
        LET p == payload[1]
        IN  /\ p.referralURLs = KeptCandidates(Kept)
            /\ [k \in 1..Len(p.articles) |-> p.articles[k].readMore] = KeptCandidates(Kept)

ContentPresent(html) == html # None
ContentNonEmpty(html) == html # None /\ ~html[1].empty

\* C9 as claimed: the payload lists exactly the candidates with present content
C9_PresentContentListed == PayloadLists(ContentPresent)

\* C9 amended: the payload lists, in candidate order, exactly the candidates whose
\* fetch returned non-empty content; a candidate whose content is absent or the empty
\* string is in neither list
C9_NonEmptyContentListed == PayloadLists(ContentNonEmpty)

\* three candidates finished out of order: one failed, two are listed in candidate order
C9_Witness ==
    /\ pc = "done"
    /\ Len(links) = 3
    /\ completion[1] = 3
    /\ results[2][2] = None
    /\ Len(payload[1].articles) = 2
    /\ payload[1].referralURLs = <<links[1], links[3]>>

\* C13 as claimed: for every concurrency value an invocation whose seed crawl
\* succeeded eventually returns a payload
C13_PayloadEventuallyAnyConcurrency ==
    (pc = "gather") ~> (pc = "done" /\ payload # None)

\* C13 amended: for every concurrency >= 1 an invocation whose seed crawl succeeded
\* eventually returns a payload, whatever the fetches of its candidates gave
C13_PayloadEventually ==
    (pc = "gather" /\ concurrency >= 1) ~> (pc = "done" /\ payload # None)

\* a payload with fewer articles than candidates was returned after a failed fetch
C13_Witness ==
    /\ pc = "done" /\ payload # None
    /\ concurrency >= 1
    /\ Len(links) >= 2
    /\ Len(payload[1].articles) < Len(links)
    /\ \E i \in 1..Len(task) : FetchRaises(task[i].outcome[1])

\* C22: every permit taken for a fetch is given back when the fetch ends, failed or
\* not: the permits out are never negative and are exactly the fetches in flight, and
\* when the batch is complete none is out and all `concurrency` permits are free
C22_PermitsReleased ==
    pc \in {"gather", "done"} =>
        /\ 0 <= concurrency - sem
        /\ concurrency - sem = Cardinality(InFlight)
        /\ pc = "done" => sem = concurrency /\ InFlight = {}

\* a batch under two permits is complete after one fetch timed out and one answered
C22_Witness ==
    /\ pc = "done"
    /\ concurrency = 2
    /\ sem = 2
    /\ \E i, j \in 1..Len(task) :
          /\ task[i].outcome[1].kind = "timeout"
          /\ task[j].outcome[1].kind = "response" /\ task[j].outcome[1].status = 200

\* C19: an overall limit bounds every invocation: a batch that has started is
\* eventually left, returned or abandoned, with no fetch task waiting or in flight
C19_InvocationBounded ==
    (pc = "gather") ~>
        (pc # "gather" /\ \A i \in 1..Len(task) : task[i].state \notin {"waiting", "inflight"})

-----------------------------------------------------------------------------
(* The cache wrapper, src/reference.py *)

\* Cache expiration time (24 hours), in seconds
CACHE_EXPIRATION == 24 * 60 * 60

\* the clock of the cache store advances in steps of half the expiration time
TickSeconds == CACHE_EXPIRATION \div 2

normalize_url(u) ==
    Let(urlparse(u), LAMBDA parsed_url :
        parsed_url.scheme \o ColonSlashes \o parsed_url.netloc \o parsed_url.path)

cache_key(u) == <<"s","c","r","a","p","e","d",":">> \o normalize_url(u)

SeedAQuery == Href(HostA, <<"/","?","q","=","1","#","f">>)
SeedANews == Href(HostA, <<"/","n">>)

\* a seed without a scheme: "a.io/n"
SeedNoScheme == HostA \o <<"/","n">>

\* seed URLs of the requests
Seeds == {SeedA, SeedAQuery, SeedANews, SeedNoScheme}

CacheKeys == {cache_key(u) : u \in Seeds}

\* concurrent requests
Callers == {"c1", "c2"}

\* what main(url) may return to request c: the message content of the completion,
\* which may be the empty string
MainResults(c) == {<<>>, <<"r", c>>}

\* what the completion request may raise
SummaryErrors == {"APIError"}

\* what a Redis command may raise: redis.exceptions.ConnectionError, and
\* redis.exceptions.TimeoutError (a socket timeout), which like ResponseError is a
\* RedisError but neither a redis ConnectionError nor an OSError
CacheErrors == {"RedisConnectionError", "RedisTimeoutError"}

\* an entry written with a wrong time to live
cache_entry_days(value, t, c) ==
    [value |-> value, ttl |-> CACHE_EXPIRATION * 24, setAt |-> t, by |-> c]

\* redis_client.setex(cache_key, CACHE_EXPIRATION, result) by request c at time t
\* (`by` and `setAt` are bookkeeping: who wrote the entry, and when)
cache_entry(value, t, c) ==
    [value |-> value, ttl |-> CACHE_EXPIRATION, setAt |-> t, by |-> c]

\* except (RedisConnectionError, OSError)
caught(e) == e \in {"RedisConnectionError", "OSError"}

\* `if cached_data:`
is_hit(cached_data) == Truthy(cached_data)

\* One call of check_cache_and_scrape.  held: what the store held under the key when
\* the get was issued; getError / setError: what the Redis command raised; seedError:
\* what the seed crawl raised; mainError: what main raised; result: what main returned;
\* runs: how often main was started; ret: how the call ended.
IdleCall ==
    [pc |-> "idle", url |-> <<>>, mode |-> "", held |-> None,
     getError |-> None, setError |-> None, seedError |-> None, mainError |-> None,
     result |-> None, runs |-> 0, ret |-> None]

Return(v) == Some([kind |-> "return", value |-> v, exc |-> ""])
Raise(e) == Some([kind |-> "raise", value |-> <<>>, exc |-> e])

CacheInit ==
    /\ redis_client \in BOOLEAN
    /\ cache = [k \in CacheKeys |-> None]
    /\ now = 0
    /\ call = [c \in Callers |-> IdleCall]
    /\ ClIdle /\ PlIdle /\ TsIdle /\ FnIdle

\* check_cache_and_scrape(url) is called: the key is derived; without a client the
\* pipeline runs at once
Request(c) ==
    /\ call[c].pc = "idle"
    /\ \E u \in Seeds :
          call' = [call EXCEPT ![c] =
                     [IdleCall EXCEPT !.url = u,
                                      !.pc = IF redis_client THEN "get" ELSE "crawl",
                                      !.mode = IF redis_client THEN "" ELSE "no_client"]]
    /\ UNCHANGED <<redis_client, cache, now, clVars, plVars, tsVars, fnVars>>

\* a lookup whose answer is never used
after_get_always_miss(st, cached_data) ==
    [st EXCEPT !.held = cached_data, !.pc = "crawl", !.mode = "miss"]

\* the state of a call after redis_client.get returned cached_data
after_get(st, cached_data) ==
    IF is_hit(cached_data)
    THEN [st EXCEPT !.held = cached_data, !.pc = "done", !.ret = Return(cached_data[1])]
    ELSE [st EXCEPT !.held = cached_data, !.pc = "crawl", !.mode = "miss"]

\* the state of a call after redis_client.get raised e
after_get_error(st, stored, e) ==
    IF caught(e)
    THEN [st EXCEPT !.held = stored, !.getError = Some(e),
                    !.pc = "crawl", !.mode = "get_failed"]
    ELSE [st EXCEPT !.held = stored, !.getError = Some(e),
                    !.pc = "done", !.ret = Raise(e)]

Stored(k) == IF cache[k] = None THEN None ELSE Some(cache[k][1].value)

\* await redis_client.get(cache_key)
CacheGet(c) ==
    /\ call[c].pc = "get"
    /\ \/ call' = [call EXCEPT ![c] = after_get(@, Stored(cache_key(@.url)))]
       \/ \E e \in CacheErrors :
             call' = [call EXCEPT ![c] = after_get_error(@, Stored(cache_key(@.url)), e)]
    /\ UNCHANGED <<redis_client, cache, now, clVars, plVars, tsVars, fnVars>>

\* main(url) raises e.  On the miss path the call sits inside the try block whose
\* handler returns `result`, a local that has no value yet.
main_raises(st, e) ==
    IF st.mode = "miss" /\ caught(e)
    THEN [st EXCEPT !.mainError = Some(e), !.pc = "done", !.ret = Raise("UnboundLocalError")]
    ELSE [st EXCEPT !.mainError = Some(e), !.pc = "done", !.ret = Raise(e)]

\* a call that also stores the result it got after a failed lookup
main_returns_always_stores(st, r) ==
    IF st.mode \in {"miss", "get_failed"}
    THEN [st EXCEPT !.result = Some(r), !.pc = "setex"]
    ELSE [st EXCEPT !.result = Some(r), !.pc = "done", !.ret = Return(r)]

\* the state of a call after main returned r
main_returns(st, r) ==
    IF st.mode = "miss"
    THEN [st EXCEPT !.result = Some(r), !.pc = "setex"]
    ELSE [st EXCEPT !.result = Some(r), !.pc = "done", !.ret = Return(r)]

\* main: crawler.arun(url=your_url)
MainCrawl(c) ==
    /\ call[c].pc = "crawl"
    /\ \/ call' = [call EXCEPT ![c] = [@ EXCEPT !.pc = "summarize", !.runs = @ + 1]]
       \/ \E e \in SeedErrors :
             call' = [call EXCEPT ![c] =
                        main_raises([@ EXCEPT !.runs = @ + 1, !.seedError = Some(e)], e)]
    /\ UNCHANGED <<redis_client, cache, now, clVars, plVars, tsVars, fnVars>>

\* main: client.chat.completions.create(...) and the return of the message content
MainSummarize(c) ==
    /\ call[c].pc = "summarize"
    /\ \/ \E r \in MainResults(c) : call' = [call EXCEPT ![c] = main_returns(@, r)]
       \/ \E e \in SummaryErrors : call' = [call EXCEPT ![c] = main_raises(@, e)]
    /\ UNCHANGED <<redis_client, cache, now, clVars, plVars, tsVars, fnVars>>

\* a failed write that sends the call back to the pipeline
after_setex_error_retry(st, e) ==
    IF caught(e)
    THEN [st EXCEPT !.setError = Some(e), !.pc = "crawl", !.mode = "set_failed"]
    ELSE [st EXCEPT !.setError = Some(e), !.pc = "done", !.ret = Raise(e)]

\* the state of a call after redis_client.setex raised e
after_setex_error(st, e) ==
    IF caught(e)
    THEN [st EXCEPT !.setError = Some(e), !.pc = "done", !.ret = Return(st.result[1])]
    ELSE [st EXCEPT !.setError = Some(e), !.pc = "done", !.ret = Raise(e)]

\* a write that leaves an entry already stored under the key in place
CacheSetex_if_absent(c) ==
    /\ call[c].pc = "setex"
    /\ \/ /\ cache' = [cache EXCEPT ![cache_key(call[c].url)] =
                          IF @ = None THEN Some(cache_entry(call[c].result[1], now, c))
                          ELSE @]
          /\ call' = [call EXCEPT ![c] =
                        [@ EXCEPT !.pc = "done", !.ret = Return(call[c].result[1])]]
       \/ /\ \E e \in CacheErrors : call' = [call EXCEPT ![c] = after_setex_error(@, e)]
          /\ UNCHANGED cache
    /\ UNCHANGED <<redis_client, now, clVars, plVars, tsVars, fnVars>>

\* await redis_client.setex(cache_key, CACHE_EXPIRATION, result); return result
CacheSetex(c) ==
    /\ call[c].pc = "setex"
    /\ \/ /\ cache' = [cache EXCEPT ![cache_key(call[c].url)] =
                          Some(cache_entry(call[c].result[1], now, c))]
          /\ call' = [call EXCEPT ![c] =
                        [@ EXCEPT !.pc = "done", !.ret = Return(call[c].result[1])]]
       \/ /\ \E e \in CacheErrors : call' = [call EXCEPT ![c] = after_setex_error(@, e)]
          /\ UNCHANGED cache
    /\ UNCHANGED <<redis_client, now, clVars, plVars, tsVars, fnVars>>

\* time passes in the cache store; entries past their time to live are gone
Tick ==
    /\ now < MaxTicks * TickSeconds
    /\ now' = now + TickSeconds
    /\ cache' = [k \in CacheKeys |->
                   IF cache[k] # None /\ cache[k][1].setAt + cache[k][1].ttl <= now'
                   THEN None ELSE cache[k]]
    /\ UNCHANGED <<redis_client, call, clVars, plVars, tsVars, fnVars>>

CacheNext ==
    \/ \E c \in Callers : Request(c)
    \/ \E c \in Callers : CacheGet(c)
    \/ \E c \in Callers : MainCrawl(c)
    \/ \E c \in Callers : MainSummarize(c)
    \/ \E c \in Callers : CacheSetex(c)
    \/ Tick

SpecCache == CacheInit /\ [][CacheNext]_vars

Done(c) == call[c].pc = "done"

\* C5: a call during which a cache command failed still runs the pipeline, returns the
\* pipeline's result when there is one, and raises only what the pipeline raised
C5_CacheFailureNotFatal ==
    \A c \in Callers :
        Done(c) /\ (call[c].getError # None \/ call[c].setError # None) =>
            /\ call[c].runs = 1
            /\ call[c].result # None => call[c].ret = Return(call[c].result[1])
            /\ call[c].ret[1].kind = "raise" => call[c].mainError # None

SameResource(u1, u2) ==
    /\ urlparse(u1).scheme = urlparse(u2).scheme
    /\ urlparse(u1).netloc = urlparse(u2).netloc
    /\ urlparse(u1).path = urlparse(u2).path

\* seeds that differ only in query string or fragment share one key
KeyIgnoresQueryAndFragment ==
    \A u1, u2 \in Seeds : SameResource(u1, u2) <=> cache_key(u1) = cache_key(u2)

\* C6 as claimed: whenever the store held an entry under the key, the call returns
\* that value and main does not run
C6_StoredEntryReturned ==
    /\ KeyIgnoresQueryAndFragment
    /\ \A c \in Callers :
          Done(c) /\ call[c].mode # "no_client" /\ call[c].held # None =>
              call[c].ret = Return(call[c].held[1]) /\ call[c].runs = 0

\* C6 amended: whenever the get succeeds and returns a non-empty value stored under the
\* key of normalize(seed), the call returns exactly that value and main does not run;
\* the key is the same for seeds that differ only in query string or fragment
C6_HitReturnsStored ==
    /\ KeyIgnoresQueryAndFragment
    /\ \A c \in Callers :
          Done(c) /\ call[c].mode # "no_client" /\ call[c].getError = None
                  /\ Truthy(call[c].held) =>
              /\ call[c].ret = Return(call[c].held[1])
              /\ call[c].runs = 0
              /\ call[c].result = None

\* a request for the seed with a query string is answered with what the request for
\* the bare seed stored
C6_Witness ==
    \E c, w \in Callers :
        /\ Done(c) /\ Done(w)
        /\ call[w].url = SeedA /\ call[w].mode = "miss" /\ Truthy(call[w].result)
        /\ call[c].url = SeedAQuery
        /\ call[c].ret = Return(call[w].result[1])
        /\ call[c].runs = 0

\* C7: every entry in the store was written on the miss path of a call whose main
\* returned that value for a seed with that key, with the 24 h time to live, and is
\* gone once that time has passed; a call whose main raised wrote nothing
C7_EntriesFromSuccessfulRuns ==
    /\ \A k \in CacheKeys :
          cache[k] # None =>
              LET e == cache[k][1]
                  w == call[e.by]
              IN  /\ e.ttl = 24 * 60 * 60
                  /\ now < e.setAt + 24 * 60 * 60
                  /\ w.mode = "miss" /\ w.getError = None /\ ~Truthy(w.held)
                  /\ w.runs = 1 /\ w.mainError = None
                  /\ w.result = Some(e.value)
                  /\ cache_key(w.url) = k
    /\ \A c \in Callers :
          call[c].mainError # None =>
              \A k \in CacheKeys : cache[k] = None \/ cache[k][1].by # c

\* one request left an entry in the store while the other's main raised on a miss
C7_Witness ==
    \E c, w \in Callers :
        /\ Done(w) /\ call[w].mode = "miss" /\ call[w].mainError # None
        /\ \E k \in CacheKeys :
              /\ cache[k] # None /\ cache[k][1].by = c /\ cache[k][1].value # <<>>
              /\ cache_key(call[w].url) # k

\* C14: a call on the miss path whose setex succeeds leaves its own result under the
\* key, whatever was stored there, with the time to live counted from that write, and
\* returns its own result; an entry goes away only when that time has passed or by
\* being overwritten
C14_LastWriterWins ==
    [][/\ \A c \in Callers :
            (call[c].pc = "setex" /\ call'[c].pc = "done" /\ call'[c].setError = None) =>
                /\ cache'[cache_key(call[c].url)] =
                      Some([value |-> call[c].result[1], ttl |-> 24 * 60 * 60,
                            setAt |-> now, by |-> c])
                /\ call'[c].ret = Return(call[c].result[1])
       /\ \A k \in CacheKeys :
            (cache[k] # None /\ cache'[k] = None) =>
                now' >= cache[k][1].setAt + 24 * 60 * 60]_vars

\* two requests for the same key both missed and both wrote; the store holds what the
\* later one wrote, and the earlier one still returned its own result
C14_Witness ==
    \E c, w \in Callers :
        /\ c # w /\ Done(c) /\ Done(w)
        /\ cache_key(call[c].url) = cache_key(call[w].url)
        /\ call[c].mode = "miss" /\ call[w].mode = "miss"
        /\ call[c].setError = None /\ call[w].setError = None
        /\ Truthy(call[c].result) /\ Truthy(call[w].result)
        /\ call[c].ret = Return(call[c].result[1])
        /\ call[w].ret = Return(call[w].result[1])
        /\ cache[cache_key(call[w].url)] # None
        /\ cache[cache_key(call[w].url)][1].by = w
        /\ cache[cache_key(call[w].url)][1].value = call[w].result[1]
        /\ cache[cache_key(call[w].url)][1].setAt > 0

\* C8: a call of the cache wrapper whose seed crawl raised ends by raising that very
\* exception to its caller
C8_SeedFailureSurfaced ==
    \A c \in Callers :
        Done(c) /\ call[c].seedError # None =>
            call[c].ret = Raise(call[c].seedError[1])

\* C23: a call that ends in a hit, or whose get failed, writes nothing: an entry of
\* the store changes only by running out of time or by the setex of a call on the
\* miss path, under that call's own key; the step that ends a call in a hit or after
\* a failed get leaves the store as it was
C23_WrittenOnlyOnMiss ==
    [][/\ \A k \in CacheKeys :
            cache'[k] # cache[k] =>
                \/ cache'[k] = None /\ now' > now
                \/ \E c \in Callers :
                      /\ call[c].pc = "setex" /\ call[c].mode = "miss"
                      /\ call[c].getError = None /\ ~is_hit(call[c].held)
                      /\ k = cache_key(call[c].url)
                      /\ cache'[k][1].by = c
       /\ \A c \in Callers :
            (~Done(c) /\ call'[c].pc = "done"
                /\ (call[c].getError # None \/ is_hit(call'[c].held))) =>
                cache' = cache]_vars

\* a call ended in a hit on an entry that another call wrote at an earlier time: the
\* entry is still the writer's, with the time of that write
C23_Witness ==
    \E c, w \in Callers :
        /\ c # w
        /\ Done(c) /\ call[c].getError = None /\ is_hit(call[c].held) /\ call[c].runs = 0
        /\ cache_key(call[c].url) = cache_key(call[w].url)
        /\ cache[cache_key(call[c].url)] =
              Some([value |-> call[c].held[1], ttl |-> 24 * 60 * 60,
                    setAt |-> cache[cache_key(call[c].url)][1].setAt, by |-> w])
        /\ now > cache[cache_key(call[c].url)][1].setAt

\* the call returned a value
Returned(c) == Done(c) /\ call[c].ret[1].kind = "return"

\* C21: one call runs main at most once: not at all on a hit, once without a client,
\* after a failed get and on a miss, whether the write succeeds or fails; a failed
\* write starts no second run, and a value returned after a run is that run's result
C21_PipelineAtMostOnce ==
    \A c \in Callers :
        /\ call[c].runs <= 1
        /\ Returned(c) /\ call[c].runs = 0 =>
              /\ call[c].getError = None /\ is_hit(call[c].held)
              /\ call[c].ret[1].value = call[c].held[1]
        /\ call[c].getError = None /\ is_hit(call[c].held) => call[c].runs = 0
        /\ Done(c) /\ call[c].mode \in {"no_client", "get_failed", "miss"} =>
              call[c].runs = 1
        /\ call[c].setError # None => call[c].runs = 1 /\ call[c].result # None
        /\ Returned(c) /\ call[c].runs = 1 => call[c].ret = Return(call[c].result[1])

\* after a miss the write failed, and the call returned the result of its one run
C21_Witness ==
    \E c \in Callers :
        /\ Done(c)
        /\ call[c].mode = "miss"
        /\ call[c].setError = Some("RedisConnectionError")
        /\ call[c].runs = 1
        /\ call[c].result = Some(<<"r", c>>)
        /\ call[c].ret = Return(<<"r", c>>)

\* u parses with both a scheme and a host
HasSchemeAndHost(u) == urlparse(u).scheme # <<>> /\ urlparse(u).netloc # <<>>

\* C16: a request whose seed URL has no scheme or no host ends by raising InvalidURL,
\* without a cache lookup and without a pipeline run
C16_InvalidSeedRejected ==
    \A c \in Callers :
        Done(c) /\ ~HasSchemeAndHost(call[c].url) =>
            /\ call[c].ret = Raise("InvalidURL")
            /\ call[c].runs = 0
            /\ call[c].mode \notin {"hit", "miss"}

-----------------------------------------------------------------------------
(* normalize_url applied to absolute URLs, and again to its own result *)

\* valid absolute URLs: scheme, host, path, optional query string and fragment
AbsoluteUrls ==
    {sch \o ColonSlashes \o host \o path \o query \o fragment :
        sch \in {HTTP, HTTP \o <<"s">>, <<"H","T","T","P">>},
        host \in {HostA, HostA \o <<":","8","0">>},
        path \in {<<>>, <<"/">>, <<"/","n">>, <<"/","n","/">>, <<"/","n",";","v","=","1">>,
                  <<"/","a",";","b","/","n">>},
        query \in {<<>>, <<"?","q","=","1">>},
        fragment \in {<<>>, <<"#","f">>}}

NormalizeInit ==
    /\ nzUrl \in AbsoluteUrls
    /\ nzOut = None /\ nzAgain = None
    /\ nzPc = "input"
    /\ exHtml = PageEmpty /\ exUrl = <<>> /\ exArticle = None /\ exPc = "idle"
    /\ ClIdle /\ PlIdle /\ RcIdle /\ TsIdle

NormalizeOnce ==
    /\ nzPc = "input"
    /\ nzOut' = Some(normalize_url(nzUrl))
    /\ nzPc' = "once"
    /\ UNCHANGED <<nzUrl, nzAgain, exVars, clVars, plVars, rcVars, tsVars>>

NormalizeAgain ==
    /\ nzPc = "once"
    /\ nzAgain' = Some(normalize_url(nzOut[1]))
    /\ nzPc' = "twice"
    /\ UNCHANGED <<nzUrl, nzOut, exVars, clVars, plVars, rcVars, tsVars>>

NormalizeNext == NormalizeOnce \/ NormalizeAgain

SpecNormalize == NormalizeInit /\ [][NormalizeNext]_vars

\* 0-based index of the first character of u that is c1 or c2, Len(u) if there is none
FirstOf(u, c1, c2) ==
    LET hits == {i \in 0..(Len(u) - 1) : u[i + 1] \in {c1, c2}}
    IN  IF hits = {} THEN Len(u) ELSE CHOOSE i \in hits : \A j \in hits : i <= j

\* u with the scheme in lower case and the query string and fragment cut off
WithoutQueryAndFragment(u) ==
    Lower(SliceTo(u, Find(u, ":", 0))) \o
        SubSeq(u, Find(u, ":", 0) + 1, FirstOf(u, "?", "#"))

\* C15: normalize is idempotent, and normalize(u) is u (scheme in lower case)
\* without query string and fragment, the path kept verbatim
C15_NormalizeKeepsPathVerbatim ==
    /\ nzPc # "input" /\ nzPc # "idle" => nzOut = Some(WithoutQueryAndFragment(nzUrl))
    /\ nzPc = "twice" => nzAgain = nzOut

-----------------------------------------------------------------------------
(* parse_article_meta and extract_article_fields applied to fetched pages *)

Blank == <<" ">>

\* the <meta> tag of one title or description source: absent, or present with a
\* content that is only whitespace, or with a text
MetaChoices(name, property, text) ==
    {<<>>, <<Meta(name, property, Some(Blank))>>, <<Meta(name, property, Some(text))>>}

\* a paragraph of n characters
LongParagraph(n) == [i \in 1..n |-> "x"]

ParagraphChoices ==
    { <<>>,
      << Blank >>,
      << <<"H","e","l","l","o"," ","w","o","r","l","d",".">> >>,
      << <<"H","e","l","l","o"," ","w","o","r","l","d",".">>,
         <<"S","e","c","o","n","d"," ","p","a","r","a",".">> >>,
      << Blank, <<"H","i",".">>, <<"Y","o",".">> >>,
      << <<"H","i",".">>, Blank, <<"Y","o",".">>, <<"Z","z",".">> >>,
      << LongParagraph(250), LongParagraph(250) >> }

FetchedPages ==
    {[empty |-> FALSE, metas |-> a \o b \o c \o d, title |-> t, paragraphs |-> ps] :
        a \in MetaChoices(Some("og:title"), None, <<" ","T","1">>),
        b \in MetaChoices(None, Some("og:title"), <<"T","2"," ">>),
        c \in MetaChoices(Some("twitter:title"), None, <<"T","3">>),
        d \in {<<>>, <<Meta(Some("description"), None, Some(<<"D","1">>))>>},
        t \in {None, Some(Blank), Some(<<" ","t"," ">>)},
        ps \in ParagraphChoices}

ArticleUrls == {HrefNewsA, HrefSportB}

ExtractInit ==
    /\ exHtml \in FetchedPages
    /\ exUrl \in ArticleUrls
    /\ exArticle = None
    /\ exPc = "input"
    /\ nzUrl = <<>> /\ nzOut = None /\ nzAgain = None /\ nzPc = "idle"
    /\ ClIdle /\ PlIdle /\ RcIdle /\ TsIdle

CallParse ==
    /\ exPc = "input"
    /\ exArticle' = Some(parse_article_meta(exHtml, exUrl))
    /\ exPc' = "parsed"
    /\ UNCHANGED <<exHtml, exUrl, nzVars, clVars, plVars, rcVars, tsVars>>

CallExtract ==
    /\ exPc = "input"
    /\ exArticle' = Some(extract_article_fields(exHtml, exUrl))
    /\ exPc' = "extracted"
    /\ UNCHANGED <<exHtml, exUrl, nzVars, clVars, plVars, rcVars, tsVars>>

ExtractNext == CallParse \/ CallExtract

SpecExtract == ExtractInit /\ [][ExtractNext]_vars

Extracted == exPc \in {"parsed", "extracted"}

\* the content of the first <meta> tag whose attribute attr is key, without the
\* surrounding whitespace; empty when there is no such tag or it has no content
MetaText(page, attr, key) ==
    LET hits == {i \in 1..Len(page.metas) :
                    IF attr = "name" THEN page.metas[i].name = Some(key)
                    ELSE page.metas[i].property = Some(key)}
        i0 == CHOOSE i \in hits : \A j \in hits : i <= j
    IN  IF hits = {} \/ page.metas[i0].content = None THEN <<>>
        ELSE Strip(page.metas[i0].content[1])

\* the title chain: social-card title (as name, as property), alternate social-card
\* title, <title> element, URL
TitleChain(page, u) ==
    << MetaText(page, "name", "og:title"), MetaText(page, "property", "og:title"),
       MetaText(page, "name", "twitter:title"),
       IF page.title = None THEN <<>> ELSE Strip(page.title[1]),
       u >>

FirstNonEmpty(chain) ==
    LET hits == {i \in 1..Len(chain) : chain[i] # <<>>}
    IN  IF hits = {} THEN <<>> ELSE chain[CHOOSE i \in hits : \A j \in hits : i <= j]

\* C17: the extracted record has a non-empty title, its readMore is the input URL,
\* and its title is the first non-empty value of the chain social-card title,
\* alternate social-card title, <title> element, URL, a value of only whitespace
\* counting as empty
C17_TitleChain ==
    Extracted =>
        /\ exArticle[1].title # <<>>
        /\ exArticle[1].readMore = exUrl
        /\ exArticle[1].title = FirstNonEmpty(TitleChain(exHtml, exUrl))

\* parse_article_meta met whitespace-only metadata and took the <title> text
C17_Witness ==
    /\ exPc = "parsed"
    /\ MetaText(exHtml, "name", "og:title") = <<>>
    /\ \E i \in 1..Len(exHtml.metas) : exHtml.metas[i].name = Some("og:title")
    /\ MetaText(exHtml, "property", "og:title") = <<>>
    /\ MetaText(exHtml, "name", "twitter:title") = <<>>
    /\ exHtml.title = Some(<<" ","t"," ">>)
    /\ exArticle[1].title = <<"t">>
    /\ exArticle[1].readMore = exUrl

\* the page has description metadata
HasDescription(page) ==
    \/ MetaText(page, "name", "description") # <<>>
    \/ MetaText(page, "property", "og:description") # <<>>
    \/ MetaText(page, "name", "twitter:description") # <<>>

\* the texts of the first k paragraphs of ps that are not empty
RECURSIVE FirstParagraphs(_, _)
FirstParagraphs(ps, k) ==
    IF ps = <<>> \/ k = 0 THEN <<>>
    ELSE IF Strip(Head(ps)) = <<>> THEN FirstParagraphs(Tail(ps), k)
    ELSE <<Strip(Head(ps))>> \o FirstParagraphs(Tail(ps), k - 1)

\* the first one or two non-empty paragraphs joined by a space, cut at 400 characters
ParagraphSummary(page) ==
    LET ps == FirstParagraphs(page.paragraphs, 2)
        joined == IF ps = <<>> THEN <<>>
                  ELSE IF Len(ps) = 1 THEN ps[1]
                  ELSE ps[1] \o <<" ">> \o ps[2]
    IN  SubSeq(joined, 1, IF Len(joined) < 400 THEN Len(joined) ELSE 400)

\* C18: without description metadata the summary is the first one or two non-empty
\* paragraphs joined by a space and cut at 400 characters, empty without paragraph text
C18_ParagraphFallback ==
    Extracted /\ ~HasDescription(exHtml) => exArticle[1].summary = ParagraphSummary(exHtml)

-----------------------------------------------------------------------------
(* The classifiers applied to every bounded link collection *)

\* hrefs of the link collections the classifiers are applied to
ClassifierHrefs ==
    {HrefNewsA, HrefSportB, HrefImage, HrefNewsSuperHost, HrefCulture, HrefRelative}

HrefLive == Href(HostA, SegNews \o <<"l","i","v","e","/","x">>)
HrefJsx == Href(HostA, SegNews \o <<"a",".","j","s","x">>)

\* link collections whose hrefs hit a path pattern or an extension in mid-string
FilterProbeCollections ==
    {[internal |-> i, external |-> <<>>] :
        i \in {<<HrefLive>>, <<HrefJsx>>, <<HrefNewsA, HrefLive>>, <<HrefJsx, HrefNewsA>>}}

LinkCollections ==
    UNION {{[internal |-> i, external |-> e] :
                e \in SeqsUpTo(ClassifierHrefs, Min(MaxExternal, MaxLinks - Len(i)))} :
           i \in SeqsUpTo(ClassifierHrefs, MaxLinks)}
    \cup FilterProbeCollections

ClassifyInit ==
    /\ clLinks \in LinkCollections
    /\ clHost \in {<<>>, HostA}
    /\ clLimit \in -1..MaxLimit
    /\ clSelected = <<>>
    /\ clCandidates = [limit |-> None, out |-> <<>>]
    /\ clPc = "input"
    /\ PlIdle /\ RcIdle /\ TsIdle /\ FnIdle

CallSelect ==
    /\ clPc = "input"
    /\ clSelected' = select_article_links(clLinks, clHost, clLimit)
    /\ clPc' = "select_article_links"
    /\ UNCHANGED <<clLinks, clHost, clLimit, clCandidates, plVars, rcVars, tsVars, fnVars>>

CallCollect ==
    /\ clPc = "input"
    /\ \E lim \in {None, Some(clLimit)} :
          clCandidates' = [limit |-> lim,
                           out |-> collect_candidate_links(clLinks, clHost, lim)]
    /\ clPc' = "collect_candidate_links"
    /\ UNCHANGED <<clLinks, clHost, clLimit, clSelected, plVars, rcVars, tsVars, fnVars>>

ClassifyNext == CallSelect \/ CallCollect

SpecClassify == ClassifyInit /\ [][ClassifyNext]_vars

Distinct(s) == \A i, j \in 1..Len(s) : i # j => s[i] # s[j]

\* C10 as claimed: a candidate list returned by either classifier for any integer
\* limit has at most `limit` entries and no entry twice
C10_CandidatesBoundedAnyLimit ==
    /\ clPc = "select_article_links" =>
          Len(clSelected) <= clLimit /\ Distinct(clSelected)
    /\ clPc = "collect_candidate_links" =>
          /\ Distinct(clCandidates.out)
          /\ clCandidates.limit # None => Len(clCandidates.out) <= clCandidates.limit[1]

\* C10 amended: a candidate list returned by either classifier for a limit >= 0 has
\* at most `limit` entries and no entry twice
C10_CandidatesBoundedDistinct ==
    /\ clPc = "select_article_links" =>
          /\ Distinct(clSelected)
          /\ clLimit >= 0 => Len(clSelected) <= clLimit
    /\ clPc = "collect_candidate_links" =>
          /\ Distinct(clCandidates.out)
          /\ clCandidates.limit # None /\ clLimit >= 0 =>
                Len(clCandidates.out) <= clCandidates.limit[1]

\* both classifiers cut a longer list of accepted links down to a limit of 2
C10_Witness ==
    \/ /\ clPc = "select_article_links"
       /\ clLimit = 2 /\ Len(clSelected) = 2
       /\ Len(clLinks.internal) = 3
       /\ \E i, j \in 1..3 : i # j /\ clLinks.internal[i] = clLinks.internal[j]
    \/ /\ clPc = "collect_candidate_links"
       /\ clCandidates.limit = Some(2) /\ Len(clCandidates.out) = 2
       /\ Len(add_urls(clLinks.internal, <<>>, clHost)) = 3

OnHost(u, host) == StartsWith(u, HTTP) /\ urlparse(u).netloc = host

\* C11: with a host restriction set, every candidate of either classifier starts with
\* the HTTP(S) scheme prefix and has exactly the restriction host as its host
C11_CandidatesOnRestrictionHost ==
    clHost # <<>> =>
        /\ clPc = "select_article_links" =>
              \A i \in 1..Len(clSelected) : OnHost(clSelected[i], clHost)
        /\ clPc = "collect_candidate_links" =>
              \A i \in 1..Len(clCandidates.out) : OnHost(clCandidates.out[i], clHost)

\* the media player, playlist and live-stream patterns of the exclusion list
NonArticlePatterns == SubSeq(ExcludedFragments, 1, Len(ExcludedFragments) - Len(AssetExtensions))

\* the filters in the order the claim lists them, for a list of article-like segments
PassesFilters(h, host, segments) ==
    /\ h # <<>> /\ StartsWith(h, HTTP)
    /\ host = <<>> \/ urlparse(h).netloc = host
    /\ ~\E k \in 1..Len(AssetExtensions) : EndsWith(Lower(h), AssetExtensions[k])
    /\ ~\E k \in 1..Len(NonArticlePatterns) : Contains(h, NonArticlePatterns[k])
    /\ \E k \in 1..Len(segments) : Contains(h, segments[k])

RECURSIVE FilteredDistinct(_, _, _, _)
\* the hrefs of `items` that pass the filters, each once, in order of first occurrence
FilteredDistinct(items, acc, host, segments) ==
    IF items = <<>> THEN acc
    ELSE FilteredDistinct(Tail(items),
            IF PassesFilters(Head(items), host, segments) /\ ~InSeq(Head(items), acc)
            THEN Append(acc, Head(items)) ELSE acc,
            host, segments)

\* C12: for a limit >= 0 either classifier returns exactly the hrefs that pass the
\* filters, each once, in discovery order (internal, then external), cut at limit
C12_ExactlyTheFilteredHrefs ==
    clLimit >= 0 =>
        /\ clPc = "select_article_links" =>
              clSelected =
                SliceTo(FilteredDistinct(clLinks.internal \o clLinks.external, <<>>,
                                         clHost, SelectSegments), clLimit)
        /\ clPc = "collect_candidate_links" =>
              LET all == FilteredDistinct(clLinks.internal \o clLinks.external, <<>>,
                                          clHost, AcceptSegments)
              IN  clCandidates.out =
                    IF clCandidates.limit = None THEN all ELSE SliceTo(all, clLimit)


\* a is b with some entries left out
RECURSIVE IsSubseq(_, _)
IsSubseq(a, b) ==
    IF a = <<>> THEN TRUE
    ELSE IF b = <<>> THEN FALSE
    ELSE IF Head(a) = Head(b) THEN IsSubseq(Tail(a), Tail(b))
    ELSE IsSubseq(a, Tail(b))

\* out is candidates of `internal` in source order, then candidates of `external` in
\* source order, the latter only after fewer than lim of the former or without host
InternalThenExternal(out, hasLimit, lim) ==
    \E k \in 0..Len(out) :
        /\ IsSubseq(SubSeq(out, 1, k), clLinks.internal)
        /\ IsSubseq(SubSeq(out, k + 1, Len(out)), clLinks.external)
        /\ k < Len(out) => (hasLimit /\ k < lim) \/ clHost = <<>>

\* C20: in every candidate list the candidates taken from `internal` precede those
\* taken from `external`, each group in source order, and `external` contributes only
\* when fewer than `limit` candidates came from `internal` or no host restriction is set
C20_InternalBeforeExternal ==
    /\ clPc = "select_article_links" => InternalThenExternal(clSelected, TRUE, clLimit)
    /\ clPc = "collect_candidate_links" =>
          InternalThenExternal(clCandidates.out, clCandidates.limit # None,
                               IF clCandidates.limit # None THEN clCandidates.limit[1] ELSE 0)

\* select_article_links took two candidates from `internal` and then one from `external`
C20_Witness ==
    /\ clPc = "select_article_links"
    /\ Len(clSelected) = 3
    /\ Len(clLinks.internal) = 2 /\ Len(clLinks.external) = 1
    /\ clSelected = clLinks.internal \o clLinks.external
-----------------------------------------------------------------------------
(* The demo script, src/testscrapingFile.py *)

BASE_URL == <<"h","t","t","p","s",":","/","/","w","w","w",".","b","b","c",".","c","o","m">>

\* the demo fetches at most this many of the links it found
DEMO_FETCH_CAP == 12
\* the demo summary is cut after this many words
SUMMARY_WORDS == 70

\* urljoin(base, href) for a base without path and an href without scheme, query,
\* fragment or dot segments: network-path, absolute-path and relative references
urljoin(base, href) ==
    IF href = <<>> THEN base
    ELSE IF StartsWith(href, <<"/","/">>)
         THEN SliceTo(base, Find(base, ":", 0) + 1) \o href
    ELSE IF StartsWith(href, <<"/">>) THEN base \o href
    ELSE base \o <<"/">> \o href

\* the segment list of _is_article_url
ArticleSegments == <<SegNews, SegNews \o <<"a","r","t","i","c","l","e","s","/">>,
                     SegSport, SegBusiness, SegWorld>>

_is_article_url(u, base_host) ==
    IF u = <<>> \/ ~StartsWith(u, HTTP) THEN FALSE
    ELSE IF urlparse(u).netloc # base_host THEN FALSE
    ELSE /\ \E i \in 1..Len(ArticleSegments) : Contains(u, ArticleSegments[i])
         /\ ~\E i \in 1..Len(AssetExtensions) : EndsWith(Lower(u), AssetExtensions[i])

\* href if href.startswith("http") else urljoin(BASE_URL, href)
full_url(href) == IF StartsWith(href, HTTP) THEN href ELSE urljoin(BASE_URL, href)

\* the set built by the two loops over homepage.links; an item is None (no item or
\* no href) or Some(href), and a list of plain strings holds hrefs
found_links(homepage_links, base_host) ==
    LET hrefs ==
          IF homepage_links.kind = "dict"
          THEN {it[1] : it \in ({homepage_links.internal[i] :
                                     i \in 1..Len(homepage_links.internal)}
                                   \cup {homepage_links.external[i] :
                                     i \in 1..Len(homepage_links.external)})
                                  \ {None}}
               \ {<<>>}
          ELSE IF homepage_links.kind = "list"
          THEN {homepage_links.items[i] : i \in 1..Len(homepage_links.items)}
          ELSE {}
    IN  {u \in {full_url(h) : h \in hrefs} : _is_article_url(u, base_host)}

\* list(a_set): the elements in an order the program does not choose
list_of(S) == {s \in [1..Cardinality(S) -> S] : \A x \in S : \E i \in DOMAIN s : s[i] = x}

LowerToUpper(c) == CHOOSE u \in DOMAIN UpperToLower : UpperToLower[u] = c

\* s.title()
Title(s) ==
    [i \in 1..Len(s) |->
        IF s[i] \notin Letters THEN s[i]
        ELSE IF i = 1 \/ s[i - 1] \notin Letters
             THEN (IF s[i] \in DOMAIN UpperToLower THEN s[i] ELSE LowerToUpper(s[i]))
             ELSE (IF s[i] \in DOMAIN UpperToLower THEN UpperToLower[s[i]] ELSE s[i])]

\* s.replace("-", " ")
DashesToSpaces(s) == [i \in 1..Len(s) |-> IF s[i] = "-" THEN " " ELSE s[i]]

\* url.split("/")[-1].replace("-", " ").title()
title_from_url(u) == Title(DashesToSpaces(SliceFrom(u, RFind(u, "/") + 1)))

RECURSIVE split_words(_, _, _)
\* text.split(): the maximal runs of non-whitespace characters
split_words(text, word, words) ==
    IF text = <<>> THEN (IF word = <<>> THEN words ELSE Append(words, word))
    ELSE IF Head(text) \in Whitespace
         THEN split_words(Tail(text), <<>>,
                          IF word = <<>> THEN words ELSE Append(words, word))
    ELSE split_words(Tail(text), Append(word, Head(text)), words)

\* the article record built in the try block for one crawl result
demo_article(result, u) ==
    LET text == Strip(Or(result.markdown, Some(<<>>))[1])
        title == Or(result.og_title,
                    Or(result.twitter_title,
                       Or(result.title, Some(title_from_url(u)))))
        words == split_words(text, <<>>, <<>>)
        summary == IF Len(words) > SUMMARY_WORDS
                   THEN JoinSpace(SliceTo(words, SUMMARY_WORDS)) \o <<".",".",".">>
                   ELSE text
    IN  [title |-> Strip(Or(title, Some(<<"U","n","t","i","t","l","e","d">>))[1]),
         summary |-> Strip(Or(Some(summary),
                        Some(<<"N","o"," ","s","u","m","m","a","r","y"," ",
                               "a","v","a","i","l","a","b","l","e">>))[1]),
         readMore |-> u]

TsNewsAB == BASE_URL \o SegNews \o <<"a","-","b">>
TsSportC == SegSport \o <<"c">>
TsImage == BASE_URL \o SegNews \o <<"d",".","j","p","g">>
TsOtherHost == <<"h","t","t","p","s",":","/","/","x",".","c","o","m">> \o SegNews \o <<"e">>
TsWorldF == BASE_URL \o SegWorld \o <<"f">>

DictLinks(internal, external) ==
    [kind |-> "dict", internal |-> internal, external |-> external, items |-> <<>>]

\* what homepage.links may hold
HomepageLinks ==
    {[kind |-> "none", internal |-> <<>>, external |-> <<>>, items |-> <<>>],
     [kind |-> "list", internal |-> <<>>, external |-> <<>>,
      items |-> <<TsSportC, TsNewsAB, TsImage>>]}
    \cup {DictLinks(i, e) :
            i \in SeqsUpTo({Some(TsNewsAB), Some(TsSportC), Some(TsImage), None},
                           MaxLinks - 1),
            e \in SeqsUpTo({Some(TsOtherHost), Some(TsWorldF), Some(TsNewsAB)}, 1)}

\* homepage.redirected_url
Redirects == {None, Some(<<"h","t","t","p","s",":","/","/","b","b","c",".","c","o","m","/">>)}

\* the crawl results of an article page; metadata absent is every key absent
CrawlResults ==
    {[markdown |-> Some(<<" ","H","i"," ","t","h","e","r","e"," ">>),
      og_title |-> Some(<<"T","o","p"," ","s","t","o","r","y">>),
      twitter_title |-> None, title |-> None],
     [markdown |-> None, og_title |-> None, twitter_title |-> None, title |-> None],
     [markdown |-> Some(<<"a","\n","b">>), og_title |-> Some(<<>>),
      twitter_title |-> None, title |-> Some(<<" ">>)]}

TestScrapingInit ==
    /\ tsPc = "homepage"
    /\ article_links = <<>>
    /\ tsIdx = 0
    /\ tsArticles = <<>>
    /\ tsOutput = None
    /\ ClIdle /\ PlIdle /\ RcIdle /\ FnIdle

\* crawler.arun(url=BASE_URL) raises: main ends without output
HomepageFails ==
    /\ tsPc = "homepage"
    /\ tsPc' = "raised"
    /\ UNCHANGED <<article_links, tsIdx, tsArticles, tsOutput, clVars, plVars, rcVars, fnVars>>

\* steps 1 and 2: the homepage crawl and the extraction of the article links
Homepage ==
    /\ tsPc = "homepage"
    /\ \E homepage_links \in HomepageLinks, redirected_url \in Redirects :
          \E l \in list_of(found_links(homepage_links,
                              urlparse(Or(redirected_url, Some(BASE_URL))[1]).netloc)) :
              article_links' = l
    /\ tsPc' = "articles"
    /\ UNCHANGED <<tsIdx, tsArticles, tsOutput, clVars, plVars, rcVars, fnVars>>

\* one iteration of the loop over article_links[:12] whose crawl returned
FetchArticle ==
    /\ tsPc = "articles"
    /\ tsIdx < Len(SliceTo(article_links, DEMO_FETCH_CAP))
    /\ \E result \in CrawlResults :
          tsArticles' = Append(tsArticles, demo_article(result, article_links[tsIdx + 1]))
    /\ tsIdx' = tsIdx + 1
    /\ UNCHANGED <<tsPc, article_links, tsOutput, clVars, plVars, rcVars, fnVars>>

\* one iteration whose crawl raised: the except clause logs and goes on
FetchArticleFails ==
    /\ tsPc = "articles"
    /\ tsIdx < Len(SliceTo(article_links, DEMO_FETCH_CAP))
    /\ tsIdx' = tsIdx + 1
    /\ UNCHANGED <<tsPc, article_links, tsArticles, tsOutput, clVars, plVars, rcVars, fnVars>>

\* the output dictionary printed and saved after the loop
WriteOutput ==
    /\ tsPc = "articles"
    /\ tsIdx = Len(SliceTo(article_links, DEMO_FETCH_CAP))
    /\ tsOutput' = Some([articles |-> tsArticles, referralURLs |-> article_links])
    /\ tsPc' = "done"
    /\ UNCHANGED <<article_links, tsIdx, tsArticles, clVars, plVars, rcVars, fnVars>>

TestScrapingNext ==
    \/ HomepageFails
    \/ Homepage
    \/ FetchArticle
    \/ FetchArticleFails
    \/ WriteOutput

SpecTestScraping == TestScrapingInit /\ [][TestScrapingNext]_vars

\* C4: in every payload the demo script emits, referralURLs and articles have the
\* same length and referralURLs[i] is articles[i].readMore at every position
C4_PayloadListsAligned ==
    tsOutput # None =>
        /\ Len(tsOutput[1].referralURLs) = Len(tsOutput[1].articles)
        /\ \A i \in 1..Len(tsOutput[1].articles) :
              /\ i <= Len(tsOutput[1].referralURLs)
              /\ tsOutput[1].referralURLs[i] = tsOutput[1].articles[i].readMore

====
